---- MODULE Spec2Model ----
(***************************************************************************)
(* The API client of the MaiMaiL web UI (class ApiClient): the session it  *)
(* keeps, the retry loop of its private request method and the public      *)
(* operations built on it, with the backend as the environment; the auth   *)
(* store built on the client; the notification store and its timers; and   *)
(* the debounce utility.                                                   *)
(***************************************************************************)
EXTENDS Naturals, Sequences, FiniteSets, TLC

VARIABLES
  sessionId,   \* ApiClient.sessionId: a token or Null
  storage,     \* localStorage['session_id']: a token or Null (no entry)
  calls,       \* per caller: the public operation it runs and the state of its request
  backend,     \* the responses the backend gives in this run
  ops,         \* per caller: the public operations it invokes in this run
  auth,        \* the AuthState held by the auth store
  stale,       \* the callers whose attempt in flight was sent before a login stored a session
  notifications, \* the array held by the notification store, newest first
  pending,     \* the ids whose removal timer is set and has not fired
  minted,      \* how many ids generateId has handed out
  asked,       \* per id handed out: the duration its notification was added with
  now,         \* the clock of the debounce run, in ms
  timeout,     \* the `timeout` variable closed over by the debounced function
  scheduled,   \* the timers set by the debounced function and neither fired nor cleared
  called,      \* the calls made of the debounced function: time and argument
  ran          \* the executions of func: time and argument

clientVars == <<sessionId, storage, calls, backend, ops, auth, stale>>
noteVars == <<notifications, pending, minted, asked>>
debounceVars == <<now, timeout, scheduled, called, ran>>

vars == <<clientVars, noteVars, debounceVars>>

\* ---------------------------------------------------------------- values

Null == "<null>"

\* Session tokens: the user names a login can answer with, and one left in
\* localStorage by an earlier page load.
Tokens == {"alice", "bob"}

Callers == {"c1", "c2"}

\* `retries = 3`, the default no public operation overrides.
DefaultRetries == 3

\* The factor of the backoff delay, in ms.
BaseDelay == 1000

\* API_KEY: VITE_API_KEY || ''.
API_KEY == ""

\* msg: string | string[]
StrMsg(s) == [isArray |-> FALSE, parts |-> <<s>>]
ListMsg(l) == [isArray |-> TRUE, parts |-> l]

\* ApiResponse<T>: data is <<>> when the field is absent, <<d>> otherwise.
Envelope(type, msg, data) == [json |-> TRUE, type |-> type, msg |-> msg, data |-> data]

\* A body response.json() rejects.
Unparseable == [json |-> FALSE, type |-> "", msg |-> StrMsg(""), data |-> <<>>]

UserAlice == [username |-> "alice"]

EnvOk == Envelope("success", StrMsg("ok"), <<UserAlice>>)
EnvOkNoData == Envelope("success", StrMsg("ok"), <<>>)
EnvDanger == Envelope("danger", StrMsg("username taken"), <<>>)
EnvDangerList == Envelope("danger", ListMsg(<<"bad name", "bad quota">>), <<>>)
EnvWarning == Envelope("warning", StrMsg("careful"), <<UserAlice>>)
EnvInfo == Envelope("info", StrMsg("fyi"), <<>>)

\* What fetch settles with: a response (status, body), or a rejection, written
\* as status 0 with no body.
Resp(status, body) == [status |-> status, body |-> body]
NetFail == Resp(0, Unparseable)
NoResp == Resp(1, Unparseable)

AllResponses ==
  {NetFail,
   Resp(401, EnvDanger), Resp(403, EnvDanger),
   Resp(500, EnvDanger), Resp(500, EnvOk), Resp(500, Unparseable),
   Resp(404, EnvDanger), Resp(404, EnvOkNoData),
   Resp(200, EnvOk), Resp(200, EnvOkNoData), Resp(200, EnvDanger),
   Resp(200, EnvDangerList), Resp(200, EnvWarning), Resp(200, EnvInfo),
   Resp(200, Unparseable)}

\* The operations modelled: name, verb and whether a body is passed. The last
\* two are request called directly with a payload and a verb no public
\* operation combines with one.
\* `store` names the method of the auth store that calls the operation, and is
\* empty when the operation is called on the client directly.
Op(name, method, body) == [name |-> name, method |-> method, body |-> body, store |-> ""]

Operations ==
  {Op("login", "POST", TRUE), Op("logout", "POST", FALSE),
   Op("getAuthStatus", "GET", FALSE), Op("getAnalysis", "GET", FALSE),
   Op("getMailboxes", "GET", FALSE), Op("getMailbox", "GET", FALSE),
   Op("createMailbox", "POST", TRUE), Op("updateMailbox", "PUT", TRUE),
   Op("deleteMailbox", "DELETE", FALSE),
   Op("request GET", "GET", TRUE), Op("request DELETE", "DELETE", TRUE)}

OpNamed(n) == CHOOSE o \in Operations : o.name = n

\* The client operations as the methods of the auth store call them: init calls
\* getAuthStatus, login calls login and logout calls logout.
StoreOperations ==
  {[OpNamed("getAuthStatus") EXCEPT !.store = "init"],
   [OpNamed("login") EXCEPT !.store = "login"],
   [OpNamed("logout") EXCEPT !.store = "logout"]}

\* The name a run lists an operation under.
OpKey(o) == IF o.store = "" THEN o.name ELSE "auth." \o o.store

NoOp == Op("", "", FALSE)

\* Error objects.
Err(name, message) == [name |-> name, message |-> message]
NoErr == Err("", "")
ErrUnauthorized == Err("Error", "Unauthorized - please login again")
ErrForbidden == Err("Error", "Forbidden - insufficient permissions")
ErrMaxRetries == Err("Error", "Maximum retries exceeded")
ErrFetch == Err("TypeError", "Failed to fetch")
ErrParse == Err("SyntaxError", "Unexpected token in JSON")

\* ---------------------------------------------------------------- helpers

RECURSIVE Pow(_, _)
\* Math.pow(b, e) for a natural exponent.
Pow(b, e) == IF e = 0 THEN 1 ELSE b * Pow(b, e - 1)

\* Backoff with a delay that grows by a fixed step.
BackoffLinear(attempt) == (attempt + 1) * BaseDelay

\* The delay of the sleep after a failed attempt: Math.pow(2, attempt) * 1000.
Backoff(attempt) == Pow(2, attempt) * BaseDelay

RECURSIVE Join(_, _)
\* Array.prototype.join.
Join(parts, sep) ==
  IF Len(parts) = 0 THEN ""
  ELSE IF Len(parts) = 1 THEN parts[1]
  ELSE parts[1] \o sep \o Join(Tail(parts), sep)

\* Array.isArray(data.msg) ? data.msg.join(', ') : data.msg
ErrorMsg(msg) == IF msg.isArray THEN Join(msg.parts, ", ") ELSE msg.parts[1]

\* JavaScript truthiness of a string | null.
Truthy(s) == s # Null /\ s # ""

\* response.ok
IsOk(status) == status >= 200 /\ status <= 299

\* BuildOptions serializing the payload whatever the verb.
BuildOptionsAnyVerb(method, body, apiKey) ==
  [method |-> method,
   headers |-> {<<"Content-Type", "application/json">>}
                 \cup (IF Truthy(apiKey) THEN {<<"X-API-Key", apiKey>>} ELSE {}),
   credentials |-> "include",
   hasBody |-> body]

\* The headers and the options request builds, once, before its loop.
BuildHeaders(apiKey) ==
  {<<"Content-Type", "application/json">>}
    \cup (IF Truthy(apiKey) THEN {<<"X-API-Key", apiKey>>} ELSE {})

BuildOptions(method, body, apiKey) ==
  [method |-> method,
   headers |-> BuildHeaders(apiKey),
   credentials |-> "include",
   hasBody |-> body /\ method \in {"POST", "PUT"}]

\* The session token a request carries in its headers, Null when it has none.
CarriedToken(options) ==
  IF \E h \in options.headers : h[1] \notin {"Content-Type", "X-API-Key"}
  THEN (CHOOSE h \in options.headers : h[1] \notin {"Content-Type", "X-API-Key"})[2]
  ELSE Null

\* What the body of the try block does with what fetch settled with.
Throw(err, clear) == [act |-> "throw", err |-> err, clear |-> clear]
Continue == [act |-> "continue", err |-> NoErr, clear |-> FALSE]
Return == [act |-> "return", err |-> NoErr, clear |-> FALSE]

\* status >= 500 && attempt < retries
RetriesServerError(status, attempt, retries) == status >= 500 /\ attempt < retries

\* IsDanger testing for "error", which is no wire type.
IsDangerWrongTag(body) == body.type = "error"

\* IsDanger taking every type but 'success' for an error.
IsDangerNotSuccess(body) == body.type # "success"

\* data.type === 'danger'
IsDanger(body) == body.type = "danger"

\* ParseBody handing back a body it could not parse.
ParseBodyLenient(body) ==
  IF ~body.json THEN Return
  ELSE IF IsDanger(body) THEN Throw(Err("Error", ErrorMsg(body.msg)), FALSE)
  ELSE Return

\* await response.json() and the check of the envelope.
ParseBody(body) ==
  IF ~body.json THEN Throw(ErrParse, FALSE)
  ELSE IF IsDanger(body) THEN Throw(Err("Error", ErrorMsg(body.msg)), FALSE)
  ELSE Return

\* TryBody clearing the session on a 403 as well.
TryBodyClearsOnForbidden(r, attempt, retries) ==
  IF r.status = 0 THEN Throw(ErrFetch, FALSE)
  ELSE IF ~IsOk(r.status) /\ r.status = 401 THEN Throw(ErrUnauthorized, TRUE)
  ELSE IF ~IsOk(r.status) /\ r.status = 403 THEN Throw(ErrForbidden, TRUE)
  ELSE IF ~IsOk(r.status) /\ RetriesServerError(r.status, attempt, retries) THEN Continue
  ELSE ParseBody(r.body)

\* The body of the try block, from what fetch settled with to the return, the
\* throw or the `continue`.
TryBody(r, attempt, retries) ==
  IF r.status = 0 THEN Throw(ErrFetch, FALSE)
  ELSE IF ~IsOk(r.status) /\ r.status = 401 THEN Throw(ErrUnauthorized, TRUE)
  ELSE IF ~IsOk(r.status) /\ r.status = 403 THEN Throw(ErrForbidden, FALSE)
  ELSE IF ~IsOk(r.status) /\ RetriesServerError(r.status, attempt, retries) THEN Continue
  ELSE ParseBody(r.body)

\* Rethrows with a budget of its own, one attempt shorter than that of the
\* 5xx branch.
RethrowsEarly(attempt, retries) == attempt + 1 >= retries

\* Rethrows testing for an attempt past the last one.
RethrowsLate(attempt, retries) == attempt > retries

\* catch (error) { if (attempt === retries) throw error; ... }
Rethrows(attempt, retries) == attempt = retries

\* LoopCond stopping one attempt early.
LoopCondStrict(attempt, retries) == attempt < retries

\* The condition of the for loop.
LoopCond(attempt, retries) == attempt <= retries

\* ---------------------------------------------------------------- state

\* What a public operation hands to its caller.
Value(tag, payload) == [tag |-> tag, payload |-> payload]
Outcome(raised, err, val) == [raised |-> raised, err |-> err, val |-> val]
NoOutcome == Outcome(FALSE, NoErr, Value("", <<>>))

\* A caller that is running nothing.
IdleCall ==
  [pc |-> "idle",            \* idle, fetch, sleep, returned, raised, done
   op |-> NoOp,              \* the public operation
   options |-> BuildOptions("", FALSE, ""),
   attempt |-> 0,            \* the loop variable of request
   log |-> <<>>,             \* the status each attempt so far settled with
   last |-> NoResp,          \* what the latest attempt settled with
   sleeps |-> <<>>,          \* the delays slept so far, in ms
   held |-> Null,            \* sessionId when the latest attempt was sent
   ret |-> Unparseable,      \* the envelope request returned
   err |-> NoErr,            \* the error request threw
   out |-> NoOutcome,        \* what the operation handed to its caller
   res |-> NoOutcome]        \* what the method of the auth store handed to its caller

\* AuthState: the user (null, undefined or a record) and the flag.
AuthState(user, isAuthenticated) == [user |-> user, isAuthenticated |-> isAuthenticated]
NullUser == Value("null", <<>>)
InitialState == AuthState(NullUser, FALSE)

\* The values setUser can be called with: User | null.
Users == {NullUser, Value("data", <<UserAlice>>)}

\* JavaScript truthiness of what a client operation returned as a user.
IsUser(val) == val.tag = "data"

\* What a method of the auth store leaves: the state of the store and what the
\* method hands to its caller.
Settled(state, out) == [state |-> state, out |-> out]
Void == Value("undefined", <<>>)
LoginResult(success, error) == Value("result", <<[success |-> success, error |-> error]>>)

\* auth.init, from what api.getAuthStatus handed back.
AuthInit(out, state) ==
  IF out.raised THEN Settled(state, Outcome(FALSE, NoErr, Void))
  ELSE IF IsUser(out.val) THEN Settled(AuthState(out.val, TRUE), Outcome(FALSE, NoErr, Void))
  ELSE Settled(state, Outcome(FALSE, NoErr, Void))

\* AuthLogin setting the store in a finally block, whatever the client did.
AuthLoginSetsAlways(out, state) ==
  IF out.raised
  THEN Settled(AuthState(out.val, TRUE),
               Outcome(FALSE, NoErr, LoginResult(FALSE, <<out.err.message>>)))
  ELSE Settled(AuthState(out.val, TRUE), Outcome(FALSE, NoErr, LoginResult(TRUE, <<>>)))

\* auth.login, from what api.login handed back.
AuthLogin(out, state) ==
  IF out.raised
  THEN Settled(state, Outcome(FALSE, NoErr, LoginResult(FALSE, <<out.err.message>>)))
  ELSE Settled(AuthState(out.val, TRUE), Outcome(FALSE, NoErr, LoginResult(TRUE, <<>>)))

\* AuthLogout with the set in the try block and no catch.
AuthLogoutNoFinally(out, state) ==
  IF out.raised THEN Settled(state, Outcome(TRUE, out.err, Value("", <<>>)))
  ELSE Settled(AuthState(NullUser, FALSE), Outcome(FALSE, NoErr, Void))

\* auth.logout, from what api.logout handed back: the catch logs the error and
\* the finally block sets the store.
AuthLogout(out, state) ==
  Settled(AuthState(NullUser, FALSE), Outcome(FALSE, NoErr, Void))

\* auth.setUser(user)
SetUser(user, state) == AuthState(user, IsUser(user))

\* The rest of a method of the auth store, after its `await api...`.
StoreFinish(method, out, state) ==
  CASE method = "init" -> AuthInit(out, state)
    [] method = "login" -> AuthLogin(out, state)
    [] method = "logout" -> AuthLogout(out, state)
    [] OTHER -> Settled(state, NoOutcome)

\* The names of the public operations.
PublicNames == {o.name : o \in Operations} \ {"request GET", "request DELETE"}

\* The runs checked: one caller running every public operation against a
\* backend that can give any response; two concurrent callers against a backend
\* that accepts, rejects the session or fails; one caller calling request with a
\* payload under each verb against a backend that accepts or fails; and one
\* caller using the auth store against a backend that accepts with or without
\* a user, rejects the session or cannot be reached.
Workloads ==
  {[ops |-> [c \in Callers |-> IF c = "c1" THEN PublicNames ELSE {}],
    backend |-> AllResponses],
   [ops |-> [c \in Callers |->
               IF c = "c1"
               THEN {"request GET", "request DELETE", "createMailbox", "updateMailbox"}
               ELSE {}],
    backend |-> {NetFail, Resp(500, EnvDanger), Resp(200, EnvOk)}],
   [ops |-> [c \in Callers |-> IF c = "c1" THEN {"getMailboxes", "logout"} ELSE {"login"}],
    backend |-> {Resp(401, EnvDanger), Resp(500, EnvDanger), Resp(200, EnvOk)}],
   [ops |-> [c \in Callers |->
               IF c = "c1"
               THEN {"auth.init", "auth.login", "auth.logout", "auth.setUser"}
               ELSE {}],
    backend |-> {NetFail, Resp(401, EnvDanger), Resp(200, EnvOk), Resp(200, EnvOkNoData)}]}

\* The state once the module is loaded: `new ApiClient()` has restored the
\* session from localStorage.
NotesInit == notifications = <<>> /\ pending = {} /\ minted = 0 /\ asked = <<>>

\* No call of the debounced function yet: `let timeout` holds no timer id.
DebounceInit == now = 0 /\ timeout = 0 /\ scheduled = {} /\ called = <<>> /\ ran = <<>>

\* The constructor: the session is what localStorage.getItem('session_id') gives.
Restore(entry) == entry

Init ==
  /\ storage \in Tokens \cup {Null}
  /\ sessionId = Restore(storage)
  /\ calls = [c \in Callers |-> IdleCall]
  /\ \E w \in Workloads : backend = w.backend /\ ops = w.ops
  /\ auth = InitialState
  /\ stale = {}
  /\ NotesInit
  /\ DebounceInit

\* ---------------------------------------------------------------- actions

\* setSession always calling setItem: a cleared session is persisted as the
\* string "null".
SetSessionStoresNull(s) ==
  /\ sessionId' = s
  /\ storage' = IF Truthy(s) THEN s ELSE "null"

\* setSession never removing the entry: a cleared session stays persisted.
SetSessionKeepsEntry(s) ==
  /\ sessionId' = s
  /\ storage' = IF Truthy(s) THEN s ELSE storage

\* setSession(s), as the two assignments it makes.
SetSession(s) ==
  /\ sessionId' = s
  /\ storage' = IF Truthy(s) THEN s ELSE Null

\* EnterLoop without the attempt++ of the loop: the counter stays where it was.
EnterLoopNoIncrement(call, attempt, session) ==
  IF LoopCond(call.attempt, DefaultRetries)
  THEN [call EXCEPT !.pc = "fetch", !.held = session]
  ELSE [call EXCEPT !.pc = "raised", !.err = ErrMaxRetries]

\* The call record once the loop of request has tested its condition with
\* `attempt`: the next fetch is sent, or the loop is left.
EnterLoop(call, attempt, session) ==
  IF LoopCond(attempt, DefaultRetries)
  THEN [call EXCEPT !.pc = "fetch", !.attempt = attempt, !.held = session]
  ELSE [call EXCEPT !.pc = "raised", !.attempt = attempt, !.err = ErrMaxRetries]

\* A caller calls a public operation, which calls request: the options are
\* built and the first fetch is sent.
Invoke(c, o) ==
  /\ calls[c].pc \in {"idle", "done"}
  /\ OpKey(o) \in ops[c]
  /\ calls' = [calls EXCEPT ![c] =
       EnterLoop([IdleCall EXCEPT !.op = o,
                                  !.options = BuildOptions(o.method, o.body, API_KEY)],
                 0, sessionId)]
  /\ stale' = stale \ {c}
  /\ UNCHANGED <<sessionId, storage, backend, ops, auth, noteVars, debounceVars>>

\* The fetch of caller c settles with r, and request runs on to its next await,
\* its return or its throw.
Respond(c, r) ==
  LET call == calls[c]
      did == TryBody(r, call.attempt, DefaultRetries)
      seen == [call EXCEPT !.log = Append(@, r.status), !.last = r]
      slept == [seen EXCEPT !.pc = "sleep", !.sleeps = Append(@, Backoff(call.attempt))]
  IN /\ call.pc = "fetch"
     /\ r \in backend
     /\ IF did.clear THEN SetSession(Null) ELSE UNCHANGED <<sessionId, storage>>
     /\ calls' = [calls EXCEPT ![c] =
          CASE did.act = "return" -> [seen EXCEPT !.pc = "returned", !.ret = r.body]
            [] did.act = "continue" -> slept
            [] did.act = "throw" ->
                 IF Rethrows(call.attempt, DefaultRetries)
                 THEN [seen EXCEPT !.pc = "raised", !.err = did.err]
                 ELSE slept]
     /\ UNCHANGED <<backend, ops, auth, stale, noteVars, debounceVars>>

\* Wake behind a client-wide lock: no retry while another request is fetching.
WakeSerialised(c) ==
  /\ calls[c].pc = "sleep"
  /\ \A d \in Callers \ {c} : calls[d].pc # "fetch"
  /\ calls' = [calls EXCEPT ![c] = EnterLoop(@, @.attempt + 1, sessionId)]
  /\ stale' = stale \ {c}
  /\ UNCHANGED <<sessionId, storage, backend, ops, auth, noteVars, debounceVars>>

\* The timer of the backoff sleep fires: attempt++ and the loop goes round.
Wake(c) ==
  /\ calls[c].pc = "sleep"
  /\ calls' = [calls EXCEPT ![c] = EnterLoop(@, @.attempt + 1, sessionId)]
  /\ stale' = stale \ {c}
  /\ UNCHANGED <<sessionId, storage, backend, ops, auth, noteVars, debounceVars>>

\* Swallows with one more operation wrapped in try/catch.
SwallowsAlsoMailboxes(name) == name \in {"getAuthStatus", "getAnalysis", "getMailboxes"}

\* The public operations that catch what request throws and return null.
Swallows(name) == name \in {"getAuthStatus", "getAnalysis"}

\* What the operation returns once request has returned envelope env.
OpReturn(name, env) ==
  CASE name = "login" -> IF env.data # <<>> THEN Value("data", env.data) ELSE Value("undefined", <<>>)
    [] name = "logout" -> Value("undefined", <<>>)
    [] name \in {"getAuthStatus", "getAnalysis"} ->
         IF env.data # <<>> THEN Value("data", env.data) ELSE Value("null", <<>>)
    [] name = "getMailboxes" ->
         IF env.data # <<>> THEN Value("data", env.data) ELSE Value("emptyList", <<>>)
    [] name = "getMailbox" ->
         IF env.data # <<>> THEN Value("data", env.data) ELSE Value("undefined", <<>>)
    [] OTHER -> Value("envelope", <<env>>)

\* What the operation does with the error request threw.
OpCatch(name, err) ==
  IF Swallows(name) THEN Outcome(FALSE, NoErr, Value("null", <<>>))
  ELSE Outcome(TRUE, err, Value("", <<>>))

\* The rest of the public operation, after `await this.request(...)`, and of
\* the method of the auth store that awaited the operation, if one did.
OpFinish(c) ==
  LET call == calls[c]
      name == call.op.name
      env == call.ret
      out == IF call.pc = "returned"
             THEN Outcome(FALSE, NoErr, OpReturn(name, env))
             ELSE OpCatch(name, call.err)
      settled == StoreFinish(call.op.store, out, auth)
      storesSession == call.pc = "returned" /\ name = "login" /\ env.data # <<>>
  IN /\ call.pc \in {"returned", "raised"}
     /\ calls' = [calls EXCEPT ![c] =
          [IdleCall EXCEPT !.pc = "done", !.op = call.op, !.err = call.err,
                           !.out = out, !.res = settled.out]]
     /\ IF storesSession
        THEN SetSession(env.data[1].username)
        ELSE IF call.pc = "returned" /\ name = "logout" THEN SetSession(Null)
        ELSE UNCHANGED <<sessionId, storage>>
     /\ auth' = settled.state
     /\ stale' = IF storesSession
                 THEN stale \cup {d \in Callers \ {c} : calls[d].pc = "fetch"}
                 ELSE stale
     /\ UNCHANGED <<backend, ops, noteVars, debounceVars>>

\* A component calls auth.setUser(user).
CallSetUser(c, user) ==
  /\ "auth.setUser" \in ops[c]
  /\ auth' = SetUser(user, auth)
  /\ UNCHANGED <<sessionId, storage, calls, backend, ops, stale, noteVars, debounceVars>>

Next ==
  \/ \E c \in Callers, o \in Operations \cup StoreOperations : Invoke(c, o)
  \/ \E c \in Callers, r \in AllResponses : Respond(c, r)
  \/ \E c \in Callers : Wake(c)
  \/ \E c \in Callers : OpFinish(c)
  \/ \E c \in Callers, user \in Users : CallSetUser(c, user)

Spec == Init /\ [][Next]_vars

\* Every fetch settles, with a response or a rejection, and every timer set by
\* sleep fires.
Fairness ==
  \A c \in Callers :
    /\ WF_vars(\E r \in AllResponses : Respond(c, r))
    /\ WF_vars(Wake(c))

SpecLive == Spec /\ Fairness

\* What setSession can be called with: string | null.
SessionArgs == Tokens \cup {Null, ""}

\* Code outside the client calls the public method setSession.
CallSetSession(s) ==
  /\ SetSession(s)
  /\ UNCHANGED <<calls, backend, ops, auth, stale, noteVars, debounceVars>>

\* The page is loaded again: the modules are evaluated anew, `new ApiClient()`
\* restores the session from localStorage, and what was in flight is gone.
Construct ==
  /\ sessionId' = Restore(storage)
  /\ calls' = [c \in Callers |-> IdleCall]
  /\ auth' = InitialState
  /\ stale' = {}
  /\ UNCHANGED <<storage, backend, ops, noteVars, debounceVars>>

\* The run checked with them: one caller that logs in, logs out and reads,
\* against a backend that accepts, rejects the session or cannot be reached.
SessionWorkload ==
  [ops |-> [c \in Callers |-> IF c = "c1" THEN {"login", "logout", "getMailboxes"} ELSE {}],
   backend |-> {NetFail, Resp(401, EnvDanger), Resp(200, EnvOk)}]

InitSession ==
  /\ storage \in Tokens \cup {Null}
  /\ sessionId = Restore(storage)
  /\ calls = [c \in Callers |-> IdleCall]
  /\ backend = SessionWorkload.backend /\ ops = SessionWorkload.ops
  /\ auth = InitialState
  /\ stale = {}
  /\ NotesInit
  /\ DebounceInit

NextSession ==
  \/ \E c \in Callers, o \in Operations : Invoke(c, o)
  \/ \E c \in Callers, r \in AllResponses : Respond(c, r)
  \/ \E c \in Callers : Wake(c)
  \/ \E c \in Callers : OpFinish(c)
  \/ \E s \in SessionArgs : CallSetSession(s)
  \/ Construct

\* The client with its session also set from outside and with page loads.
SpecSession == InitSession /\ [][NextSession]_vars

\* ---------------------------------------------------------------- notifications

\* The client and the auth store at rest, for the runs of the notification store
\* and of debounce.
ClientIdle ==
  /\ sessionId = Null /\ storage = Null
  /\ calls = [c \in Callers |-> IdleCall]
  /\ backend = {} /\ ops = [c \in Callers |-> {}]
  /\ auth = InitialState /\ stale = {}

\* How many notifications a run adds.
MaxNotes == 2

NotificationTypes == {"success", "error", "warning", "info"}

\* `duration = 5000` of add and `duration = 0` of error.
DefaultDuration == 5000
ErrorDuration == 0

\* The duration argument: left out (<<>>) or given.
GivenDurations == {<<>>, <<0>>, <<3000>>}

\* A Notification, less its title, message, timestamp and action.
Notification(id, type) == [id |-> id, type |-> type, read |-> FALSE]

\* notifications.filter((n) => n.id !== id)
WithoutId(list, id) == SelectSeq(list, LAMBDA n : n.id # id)

\* notifications.map((n) => (n.id === id ? { ...n, read: true } : n))
WithRead(list, id) ==
  [i \in 1..Len(list) |-> IF list[i].id = id THEN [list[i] EXCEPT !.read = TRUE] ELSE list[i]]

\* notifications.filter((n) => !n.read)
Unread(list) == SelectSeq(list, LAMBDA n : ~n.read)

\* ArmsTimer setting the timer whatever the duration.
ArmsTimerAlways(duration) == TRUE

\* if (duration > 0)
ArmsTimer(duration) == duration > 0

\* add(type, title, message, duration): generateId is taken to hand out an id
\* no earlier notification has.
Add(type, duration) ==
  LET id == minted + 1
  IN /\ minted < MaxNotes
     /\ notifications' = <<Notification(id, type)>> \o notifications
     /\ pending' = IF ArmsTimer(duration) THEN pending \cup {id} ELSE pending
     /\ minted' = id
     /\ asked' = Append(asked, duration)
     /\ UNCHANGED <<clientVars, debounceVars>>

\* add called with or without its duration argument.
CallAdd(type, given) ==
  Add(type, IF given = <<>> THEN DefaultDuration ELSE given[1])

\* success, error, warning and info, called with or without a duration.
CallShorthand(type, given) ==
  Add(type,
      IF given # <<>> THEN given[1]
      ELSE IF type = "error" THEN ErrorDuration
      ELSE DefaultDuration)

\* The timer set by add for id fires: this.remove(notification.id).
TimerFire(id) ==
  /\ id \in pending
  /\ pending' = pending \ {id}
  /\ notifications' = WithoutId(notifications, id)
  /\ UNCHANGED <<minted, asked, clientVars, debounceVars>>

\* remove(id)
Remove(id) ==
  /\ notifications' = WithoutId(notifications, id)
  /\ UNCHANGED <<pending, minted, asked, clientVars, debounceVars>>

\* markAsRead(id)
MarkAsRead(id) ==
  /\ notifications' = WithRead(notifications, id)
  /\ UNCHANGED <<pending, minted, asked, clientVars, debounceVars>>

\* clear()
Clear ==
  /\ notifications' = <<>>
  /\ UNCHANGED <<pending, minted, asked, clientVars, debounceVars>>

\* clearRead()
ClearRead ==
  /\ notifications' = Unread(notifications)
  /\ UNCHANGED <<pending, minted, asked, clientVars, debounceVars>>

InitNotes == ClientIdle /\ NotesInit /\ DebounceInit

NextNotes ==
  \/ \E type \in NotificationTypes, given \in GivenDurations : CallAdd(type, given)
  \/ \E type \in NotificationTypes, given \in GivenDurations : CallShorthand(type, given)
  \/ \E id \in 1..MaxNotes : TimerFire(id)
  \/ \E id \in 1..MaxNotes : Remove(id)
  \/ \E id \in 1..MaxNotes : MarkAsRead(id)
  \/ Clear
  \/ ClearRead

SpecNotes == InitNotes /\ [][NextNotes]_vars

\* Every timer set by add fires.
SpecNotesLive == SpecNotes /\ \A id \in 1..MaxNotes : WF_vars(TimerFire(id))

\* ---------------------------------------------------------------- debounce

\* The `wait` debounce is called with, in ms; how long a run lasts; and how many
\* calls of the debounced function it makes.
Wait == 2
MaxTime == 6
MaxCalls == 3

\* The arguments the debounced function is called with.
Args == {"a", "b"}

\* A timer set by setTimeout(later, wait): its id, when it is due and the
\* arguments `later` closes over.
Timer(id, due, args) == [id |-> id, due |-> due, args |-> args]

\* clearTimeout doing nothing.
ClearTimeoutNothing(timers, id) == timers

\* clearTimeout(id): no effect for an id that is undefined or has fired.
ClearTimeout(timers, id) == {t \in timers : t.id # id}

\* A timer is due: its callback runs before anything later happens.
Due == \E t \in scheduled : t.due <= now

\* executedFunction(...args): the timer held by `timeout` is cleared and a new
\* one is set.
CallDebounced(args) ==
  LET id == Len(called) + 1
  IN /\ Len(called) < MaxCalls
     /\ ~Due
     /\ scheduled' = ClearTimeout(scheduled, timeout) \cup {Timer(id, now + Wait, args)}
     /\ timeout' = id
     /\ called' = Append(called, [at |-> now, args |-> args])
     /\ UNCHANGED <<now, ran, clientVars, noteVars>>

\* later(): the timer t fires, clears `timeout` and runs func with its arguments.
Later(t) ==
  /\ t \in scheduled
  /\ t.due <= now
  /\ scheduled' = ClearTimeout(scheduled \ {t}, timeout)
  /\ ran' = Append(ran, [at |-> now, args |-> t.args])
  /\ UNCHANGED <<now, timeout, called, clientVars, noteVars>>

\* A millisecond passes.
Tick ==
  /\ now < MaxTime
  /\ ~Due
  /\ now' = now + 1
  /\ UNCHANGED <<timeout, scheduled, called, ran, clientVars, noteVars>>

InitDebounce == ClientIdle /\ NotesInit /\ DebounceInit

NextDebounce ==
  \/ \E args \in Args : CallDebounced(args)
  \/ \E t \in scheduled : Later(t)
  \/ Tick

SpecDebounce == InitDebounce /\ [][NextDebounce]_vars

\* ---------------------------------------------------------------- claims

\* The callers whose request has just handled what its latest attempt settled with.
Handled(c) == calls[c].pc \in {"sleep", "returned", "raised"} /\ calls[c].log # <<>>

\* The callers whose request has finished and whose operation has not run on yet.
Finished(c) == calls[c].pc \in {"returned", "raised"}

\* A failure the client means to retry: no response, or a 5xx status.
Retryable(status) == status = 0 \/ status >= 500

AllRetryable(log) == \A i \in 1..Len(log) : Retryable(log[i])

\* A parsed envelope of wire type 'danger'.
ErrorEnvelope(body) == body.json /\ body.type = "danger"

\* C1: once an attempt of a request has settled with status 401 or 403, the
\* request has raised: that attempt is its last one and no backoff sleep
\* followed it, so a 401 or 403 on the first attempt means one attempt and no
\* sleep at all.
C1_FatalStatusNotRetried ==
  \A c \in Callers :
    \A i \in 1..Len(calls[c].log) :
      calls[c].log[i] \in {401, 403}
        => /\ calls[c].pc = "raised"
           /\ Len(calls[c].log) = i
           /\ Len(calls[c].sleeps) = i - 1

\* C2: when the latest attempt of a request settled with a 2xx response whose
\* envelope has type 'danger', the request has raised an error carrying the
\* envelope's message (a list joined into one), and no backoff sleep followed
\* that response: on a first attempt, one attempt was made and none slept.
C2_ApplicationErrorNotRetried ==
  \A c \in Callers :
    (Handled(c) /\ IsOk(calls[c].last.status) /\ ErrorEnvelope(calls[c].last.body))
      => /\ calls[c].pc = "raised"
         /\ calls[c].err.message = ErrorMsg(calls[c].last.body.msg)
         /\ Len(calls[c].sleeps) = Len(calls[c].log) - 1

\* C3: a request all of whose attempts were retryable failures never makes more
\* than maxRetries + 1 attempts, and when it finishes it has made exactly
\* maxRetries + 1 attempts and has raised.
C3_RetryCeilingThenRaise ==
  \A c \in Callers :
    (calls[c].log # <<>> /\ AllRetryable(calls[c].log))
      => /\ Len(calls[c].log) <= DefaultRetries + 1
         /\ Finished(c) => (Len(calls[c].log) = DefaultRetries + 1 /\ calls[c].pc = "raised")

\* The kind of an error the client threw, as a caller can tell it from the error
\* object: the three fixed messages, the rejection of fetch, the rejection of
\* response.json(), and otherwise the message of an envelope.
ErrorKind(err) ==
  CASE err = ErrMaxRetries -> "RetriesExhausted"
    [] err = ErrUnauthorized -> "Unauthorized"
    [] err = ErrForbidden -> "Forbidden"
    [] err.name = "TypeError" -> "NetworkFailure"
    [] err.name = "SyntaxError" -> "Parse"
    [] OTHER -> "Application"

\* C4: a request that raised after maxRetries + 1 attempts, all of them
\* retryable failures, raised an error of the kind RetriesExhausted.
C4_ExhaustedIsDistinctKind ==
  \A c \in Callers :
    (calls[c].pc = "raised" /\ Len(calls[c].log) = DefaultRetries + 1
       /\ AllRetryable(calls[c].log))
      => ErrorKind(calls[c].err) = "RetriesExhausted"

\* C5: in the step in which a request finishes, if one of its attempts had
\* settled with status 401, the session is empty.
C5_SessionEmptyAfterUnauthorized ==
  [][\A c \in Callers :
       (~Finished(c) /\ Finished(c)'
          /\ \E i \in 1..Len(calls'[c].log) : calls'[c].log[i] = 401)
         => sessionId' = Null]_vars

\* A parsed envelope that is no error: success, warning or info.
SuccessEnvelope(body) == body.json /\ body.type # "danger"

\* C6: a request whose first n attempts (n <= maxRetries) all settled with a 5xx
\* status goes on to attempt n + 1, and when that attempt settles with a 2xx
\* success envelope the request returns that envelope after exactly n + 1
\* attempts and n sleeps.
C6_SuccessAfterServerErrors ==
  \A c \in Callers :
    LET log == calls[c].log
        n == Len(log) - 1
    IN /\ (Len(log) >= 1 /\ Len(log) <= DefaultRetries
             /\ \A i \in 1..Len(log) : log[i] >= 500)
          => calls[c].pc \in {"sleep", "fetch"}
       /\ (Handled(c) /\ n <= DefaultRetries
             /\ (\A i \in 1..n : log[i] >= 500)
             /\ IsOk(calls[c].last.status) /\ SuccessEnvelope(calls[c].last.body))
          => /\ calls[c].pc = "returned"
             /\ calls[c].ret = calls[c].last.body
             /\ calls[c].attempt = n
             /\ Len(calls[c].sleeps) = n

C6_Witness ==
  \E c \in Callers :
    /\ calls[c].pc = "returned"
    /\ calls[c].log = <<500, 500, 500, 200>>
    /\ calls[c].ret = EnvOk

\* C7: within one request the k-th backoff sleep lasts 1000 * 2^(k-1) ms, no
\* sleep is shorter than the one before it, and exactly one sleep lies between
\* two consecutive attempts.
C7_BackoffDelays ==
  \A c \in Callers :
    LET sleeps == calls[c].sleeps
    IN /\ \A k \in 1..Len(sleeps) : sleeps[k] = 1000 * 2^(k - 1)
       /\ \A k \in 2..Len(sleeps) : sleeps[k] >= sleeps[k - 1]
       /\ calls[c].pc \in {"fetch", "sleep"} => Len(sleeps) = Len(calls[c].log)
       /\ Finished(c) => Len(sleeps) = Len(calls[c].log) - 1

C7_Witness ==
  \E c \in Callers :
    /\ calls[c].pc = "fetch"
    /\ calls[c].log = <<500, 0, 500>>
    /\ calls[c].sleeps = <<1000, 2000, 4000>>

\* C8: a request whose latest attempt settled with an envelope of type 'danger',
\* whatever the status and the attempt, has not returned; no request returns an
\* envelope of type 'danger', and no operation hands one to its caller.
C8_ErrorEnvelopeNeverReturned ==
  \A c \in Callers :
    /\ (Handled(c) /\ calls[c].last.status # 0 /\ ErrorEnvelope(calls[c].last.body))
         => calls[c].pc # "returned"
    /\ calls[c].pc = "returned" => ~ErrorEnvelope(calls[c].ret)
    /\ (calls[c].pc = "done" /\ calls[c].out.val.tag = "envelope")
         => ~ErrorEnvelope(calls[c].out.val.payload[1])

C8_Witness ==
  \E c \in Callers :
    /\ calls[c].pc = "raised"
    /\ calls[c].last = Resp(404, EnvDanger)
    /\ calls[c].err.message = "username taken"

\* C9: every attempt in flight carries in its headers the session token held
\* when it was sent.
C9_AttemptCarriesHeldToken ==
  \A c \in Callers :
    calls[c].pc = "fetch" => CarriedToken(calls[c].options) = calls[c].held

\* C10: whenever the request of a public operation raised, the operation raised
\* that error to its caller.
C10_NothingSwallowed ==
  \A c \in Callers :
    (calls[c].pc = "done" /\ calls[c].err # NoErr)
      => (calls[c].out.raised /\ calls[c].out.err = calls[c].err)

\* C10, amended: whenever the request of a public operation raised, the
\* operation raised that error to its caller, except getAuthStatus and
\* getAnalysis, which returned null.
C10_SwallowedOnlyByTwo ==
  \A c \in Callers :
    (calls[c].pc = "done" /\ calls[c].err # NoErr)
      => IF calls[c].op.name \in {"getAuthStatus", "getAnalysis"}
         THEN ~calls[c].out.raised /\ calls[c].out.val.tag = "null"
         ELSE calls[c].out.raised /\ calls[c].out.err = calls[c].err

C10_Witness ==
  \E c \in Callers :
    /\ calls[c].pc = "done"
    /\ calls[c].op.name = "login"
    /\ calls[c].err = ErrForbidden
    /\ calls[c].out.raised

\* The step in which the public operation of caller c runs on after its request
\* and hands its outcome to its caller.
OpFinishes(c) == Finished(c) /\ calls'[c].pc = "done"

\* C11: when a logout call finishes, by returning or by raising, the session is
\* empty.
C11_LogoutClearsSession ==
  [][\A c \in Callers :
       (OpFinishes(c) /\ calls[c].op.name = "logout") => sessionId' = Null]_vars

\* C12: when a login call returns normally, the session holds a token.
C12_LoginCreatesSession ==
  [][\A c \in Callers :
       (OpFinishes(c) /\ calls[c].op.name = "login" /\ ~calls'[c].out.raised)
         => Truthy(sessionId')]_vars

\* The public operations that hand the data of the envelope to their caller.
DataOperations == {"login", "getAuthStatus", "getAnalysis", "getMailboxes", "getMailbox"}

\* C13: when the request of an operation that hands out data returned a success
\* envelope, the operation returns exactly the data of the envelope, and a
\* defined default (an empty list or object, or null) when the envelope has none.
C13_DataOrDefault ==
  [][\A c \in Callers :
       (OpFinishes(c) /\ calls[c].pc = "returned"
          /\ calls[c].op.name \in DataOperations /\ calls[c].ret.type = "success")
         => /\ ~calls'[c].out.raised
            /\ IF calls[c].ret.data # <<>>
               THEN calls'[c].out.val = Value("data", calls[c].ret.data)
               ELSE calls'[c].out.val.tag \in {"emptyList", "emptyObject", "null"}]_vars

\* C14: the attempt counter of a request lies between 0 and maxRetries, it
\* counts the attempts of that request alone (a request that has sent its first
\* fetch has the counter at zero) and no request makes more than maxRetries + 1
\* attempts.
C14_AttemptCounterBounded ==
  \A c \in Callers :
    /\ calls[c].attempt >= 0 /\ calls[c].attempt <= DefaultRetries
    /\ Len(calls[c].log) <= DefaultRetries + 1
    /\ calls[c].pc = "fetch" => calls[c].attempt = Len(calls[c].log)
    /\ Handled(c) => calls[c].attempt = Len(calls[c].log) - 1

C14_Witness ==
  /\ calls["c1"].pc = "fetch" /\ calls["c1"].attempt = DefaultRetries
  /\ calls["c2"].pc = "fetch" /\ calls["c2"].attempt = 0 /\ calls["c2"].log = <<>>

\* The request of caller c is where the responses to its own attempts put it:
\* the counter, the delays slept and the outcome follow from the number of its
\* attempts and from what its latest attempt settled with.
OwnRun(c) ==
  LET call == calls[c]
      k == Len(call.log)
      did == TryBody(call.last, k - 1, DefaultRetries)
  IN /\ call.sleeps = [i \in 1..Len(call.sleeps) |-> 1000 * 2^(i - 1)]
     /\ call.pc = "fetch" => (call.attempt = k /\ Len(call.sleeps) = k)
     /\ Handled(c) =>
          /\ call.attempt = k - 1
          /\ call.last.status = call.log[k]
          /\ CASE did.act = "return" ->
                    call.pc = "returned" /\ call.ret = call.last.body /\ Len(call.sleeps) = k - 1
               [] did.act = "throw" /\ k - 1 = DefaultRetries ->
                    call.pc = "raised" /\ call.err = did.err /\ Len(call.sleeps) = k - 1
               [] OTHER -> call.pc = "sleep" /\ Len(call.sleeps) = k

\* Caller c can take its next step whatever the other callers are doing.
NeverWaits(c) ==
  /\ calls[c].pc = "sleep" => ENABLED Wake(c)
  /\ calls[c].pc = "fetch" => \A r \in backend : ENABLED Respond(c, r)
  /\ Finished(c) => ENABLED OpFinish(c)
  /\ calls[c].pc \in {"idle", "done"} =>
       \A o \in Operations : o.name \in ops[c] => ENABLED Invoke(c, o)

\* C15: with two callers interleaved in any way, the attempts, the delays and
\* the outcome of each request are those its own responses determine, no caller
\* ever waits for the other, and no step changes the request of both.
C15_CallsIndependent ==
  /\ [](\A c \in Callers : OwnRun(c) /\ NeverWaits(c))
  /\ [][\A c, d \in Callers :
          c # d => (calls'[c] = calls[c] \/ calls'[d] = calls[d])]_vars

C15_Witness ==
  /\ calls["c1"].pc = "sleep" /\ calls["c1"].log = <<500, 401>>
  /\ calls["c2"].pc = "returned" /\ calls["c2"].log = <<200>>

\* C16: a request whose attempts so far all failed with a 5xx status or with no
\* response, in any mix, has made at most maxRetries + 1 attempts; while attempts
\* remain it sleeps after each of them, whichever kind it was, and the sleep
\* after its i-th failed attempt lasts 1000 * 2^(i-1) ms.
C16_SharedRetryBudget ==
  \A c \in Callers :
    (calls[c].log # <<>> /\ AllRetryable(calls[c].log))
      => /\ Len(calls[c].log) <= DefaultRetries + 1
         /\ (Handled(c) /\ Len(calls[c].log) <= DefaultRetries)
              => (calls[c].pc = "sleep" /\ Len(calls[c].sleeps) = Len(calls[c].log))
         /\ \A i \in 1..Len(calls[c].sleeps) : calls[c].sleeps[i] = BaseDelay * 2^(i - 1)

C16_Witness ==
  \E c \in Callers :
    /\ calls[c].pc = "raised"
    /\ calls[c].log = <<500, 0, 0, 500>>
    /\ calls[c].sleeps = <<1000, 2000, 4000>>

\* The callers whose request is between its call and its return or throw.
InProgress(c) == calls[c].pc \in {"fetch", "sleep"}

\* C17: when every fetch settles and every sleep ends, a request in progress
\* finishes, by returning or by raising; at no point has it made more than
\* maxRetries + 1 attempts, whatever the backend answered.
C17_InvokeTerminates ==
  /\ \A c \in Callers : InProgress(c) ~> Finished(c)
  /\ [](\A c \in Callers : InProgress(c) => Len(calls[c].log) <= DefaultRetries)

C17_Witness ==
  \E c \in Callers :
    /\ calls[c].pc = "raised"
    /\ calls[c].log = <<401, 200, 404, 0>>

\* C18: the session and its persisted copy change only in a step in which a
\* request handles a 401 (both become empty), a login whose request returned
\* data runs on (the session becomes the user name of the data), or a logout
\* whose request returned runs on (both become empty).
C18_SessionChangesOnlyThreeWays ==
  [][(sessionId' # sessionId \/ storage' # storage)
       => \E c \in Callers :
            \/ /\ calls[c].pc = "fetch" /\ calls'[c].pc # "fetch"
               /\ calls'[c].last.status = 401
               /\ sessionId' = Null /\ storage' = Null
            \/ /\ calls[c].pc = "returned" /\ OpFinishes(c)
               /\ calls[c].op.name = "login" /\ calls[c].ret.data # <<>>
               /\ sessionId' = calls[c].ret.data[1].username
            \/ /\ calls[c].pc = "returned" /\ OpFinishes(c)
               /\ calls[c].op.name = "logout"
               /\ sessionId' = Null /\ storage' = Null]_vars

C18_Witness ==
  \E c \in Callers :
    /\ calls[c].pc = "raised"
    /\ calls[c].op.name = "getMailboxes"
    /\ calls[c].log = <<403, 500, 0, 200>>
    /\ sessionId = "bob"

\* The step in which caller c calls setSession(null): its request handles a 401,
\* or its logout runs on after its request returned.
ClearsSession(c) ==
  \/ calls[c].pc = "fetch" /\ calls'[c].pc # "fetch" /\ calls'[c].last.status = 401
  \/ calls[c].pc = "returned" /\ OpFinishes(c) /\ calls[c].op.name = "logout"

\* C19: every call of setSession(null) completes and leaves the session and its
\* persisted copy empty, and one made on an empty store changes nothing.
C19_ClearIdempotent ==
  [][\A c \in Callers :
       ClearsSession(c)
         => /\ sessionId' = Null /\ storage' = Null
            /\ calls'[c].pc \in {"sleep", "raised", "done"}
            /\ (sessionId = Null /\ storage = Null) => UNCHANGED <<sessionId, storage>>]_vars

C19_Witness ==
  \E c \in Callers :
    /\ calls[c].pc = "sleep"
    /\ calls[c].log = <<401, 401>>
    /\ sessionId = Null /\ storage = Null

\* C20: at every attempt of a request, first or retried, the options carry a
\* body exactly when a payload was passed and the verb is POST or PUT; a GET or
\* DELETE request never carries one.
C20_BodyOnlyForPostPut ==
  \A c \in Callers :
    (InProgress(c) \/ Finished(c))
      => /\ calls[c].options.method = calls[c].op.method
         /\ calls[c].options.hasBody
              <=> (calls[c].op.body /\ calls[c].op.method \in {"POST", "PUT"})
         /\ calls[c].op.method \in {"GET", "DELETE"} => ~calls[c].options.hasBody

C20_Witness ==
  \E c \in Callers :
    /\ calls[c].pc = "fetch" /\ calls[c].attempt = 2
    /\ calls[c].op.method = "DELETE" /\ calls[c].op.body
    /\ ~calls[c].options.hasBody

\* C21: a request whose latest attempt settled with a 2xx response carrying an
\* envelope of type 'warning' or 'info' has returned that envelope, data
\* included; it has not raised, and no sleep followed that response.
C21_WarningInfoIsSuccess ==
  \A c \in Callers :
    (Handled(c) /\ IsOk(calls[c].last.status) /\ calls[c].last.body.json
       /\ calls[c].last.body.type \in {"warning", "info"})
      => /\ calls[c].pc = "returned"
         /\ calls[c].ret = calls[c].last.body
         /\ calls[c].ret.data = calls[c].last.body.data
         /\ calls[c].err = NoErr
         /\ Len(calls[c].sleeps) = Len(calls[c].log) - 1

C21_Witness ==
  \E c \in Callers :
    /\ calls[c].pc = "returned"
    /\ calls[c].log = <<200>>
    /\ calls[c].ret = EnvWarning

\* C22: a request that has returned had a 2xx status on its last attempt; no
\* response with another status is handed back as a success.
C22_ReturnsOnlyOn2xx ==
  \A c \in Callers :
    calls[c].pc = "returned" => IsOk(calls[c].last.status)

\* C23: the step in which a request handles a 401 answering an attempt that was
\* sent before a login stored its session leaves that session as it is.
C23_LoginSessionSurvivesOlderCall ==
  [][\A c \in Callers :
       (c \in stale /\ calls[c].pc = "fetch" /\ calls'[c].pc # "fetch"
          /\ calls'[c].last.status = 401)
         => sessionId' = sessionId]_vars

\* C24: in every state of the auth store, isAuthenticated is true exactly when
\* user is a user record.
C24_AuthenticatedIffUser ==
  auth.isAuthenticated <=> IsUser(auth.user)

\* C25: the step in which auth.logout finishes leaves the auth store with user
\* null and isAuthenticated false and hands no error to the caller, whether the
\* request of api.logout returned or raised.
C25_StoreLogoutAlwaysUnauthenticated ==
  [][\A c \in Callers :
       (OpFinishes(c) /\ calls[c].op.store = "logout")
         => /\ auth' = AuthState(NullUser, FALSE)
            /\ ~calls'[c].res.raised]_vars

C25_Witness ==
  \E c \in Callers :
    /\ calls[c].pc = "done" /\ calls[c].op.store = "logout"
    /\ calls[c].err = ErrFetch /\ calls[c].out.raised
    /\ ~calls[c].res.raised
    /\ auth = AuthState(NullUser, FALSE)
    /\ sessionId = "alice"

\* C26: the step in which auth.login finishes hands no error to the caller;
\* when api.login raised, the result is {success: false, error} with the message
\* of that error and the auth store is as it was; and the store goes from
\* unauthenticated to authenticated only when api.login returned.
C26_StoreLoginNeverRaises ==
  [][\A c \in Callers :
       (OpFinishes(c) /\ calls[c].op.store = "login")
         => /\ ~calls'[c].res.raised
            /\ calls'[c].out.raised
                 => /\ calls'[c].res.val = LoginResult(FALSE, <<calls[c].err.message>>)
                    /\ auth' = auth
            /\ (~auth.isAuthenticated /\ auth'.isAuthenticated)
                 => /\ calls[c].pc = "returned"
                    /\ calls'[c].res.val = LoginResult(TRUE, <<>>)]_vars

C26_Witness ==
  \E c \in Callers :
    /\ calls[c].pc = "done" /\ calls[c].op.store = "login"
    /\ calls[c].err = ErrUnauthorized
    /\ calls[c].res = Outcome(FALSE, NoErr,
                              LoginResult(FALSE, <<"Unauthorized - please login again">>))
    /\ auth = AuthState(Value("data", <<UserAlice>>), TRUE)

\* C27: after every setSession the persisted entry holds the session when the
\* session is a non-empty token and is absent otherwise, and a client
\* constructed then starts with the persisted value: the token, or null.
C27_SessionAndStorageAgree ==
  /\ Truthy(sessionId) => storage = sessionId
  /\ ~Truthy(sessionId) => storage = Null
  /\ Restore(storage) = IF Truthy(sessionId) THEN sessionId ELSE Null

C27_Witness ==
  /\ sessionId = "" /\ storage = Null
  /\ \E c \in Callers :
       calls[c].pc = "fetch" /\ calls[c].op.name = "getMailboxes" /\ calls[c].held = "alice"

\* C28: a request whose latest attempt settled with a 2xx response whose body
\* is no JSON sleeps the backoff delay of that attempt, 1000 * 2^attempt ms,
\* while attempts remain, as after a network failure, and has raised the parse
\* error when it was the last attempt.
C28_UnparseableRetriedLikeNetwork ==
  \A c \in Callers :
    LET call == calls[c]
        k == Len(call.log)
    IN (Handled(c) /\ IsOk(call.last.status) /\ ~call.last.body.json)
         => /\ TryBody(call.last, call.attempt, DefaultRetries).act
                 = TryBody(NetFail, call.attempt, DefaultRetries).act
            /\ IF k <= DefaultRetries
               THEN /\ call.pc = "sleep"
                    /\ Len(call.sleeps) = k
                    /\ call.sleeps[k] = 1000 * 2^(k - 1)
               ELSE /\ call.pc = "raised"
                    /\ call.err = ErrParse
                    /\ Len(call.sleeps) = DefaultRetries

C28_Witness ==
  \E c \in Callers :
    /\ calls[c].pc = "raised"
    /\ calls[c].log = <<200, 0, 200, 200>>
    /\ calls[c].last = Resp(200, Unparseable)
    /\ calls[c].err = ErrParse
    /\ calls[c].sleeps = <<1000, 2000, 4000>>

\* The notification with this id is in the store.
InStore(id) == \E i \in 1..Len(notifications) : notifications[i].id = id

\* C29: when every timer fires, a notification added with a positive duration
\* is eventually out of the store; one added with duration 0 has no timer and
\* leaves the store only in a step of remove with its id, of clear or of
\* clearRead; and a timer that fires for a notification no longer in the store
\* leaves the store as it is.
C29_TimersRemoveOnlyTimed ==
  /\ \A id \in 1..MaxNotes :
       (id <= minted /\ asked[id] > 0 /\ InStore(id)) ~> ~InStore(id)
  /\ [](\A id \in 1..minted : asked[id] = 0 => id \notin pending)
  /\ [][\A id \in 1..minted :
          (asked[id] = 0 /\ InStore(id) /\ ~InStore(id)')
            => (Remove(id) \/ Clear \/ ClearRead)]_vars
  /\ [][\A id \in pending :
          (~InStore(id) /\ id \notin pending') => notifications' = notifications]_vars

C29_Witness ==
  /\ minted = 2
  /\ asked = <<0, 5000>>
  /\ notifications = <<Notification(1, "error")>>
  /\ pending = {}

\* The i-th call is the last of its burst: no call follows it within `wait`.
BurstEnd(i) == i = Len(called) \/ called[i + 1].at - called[i].at >= Wait

\* The calls that ended a burst and whose timer is no longer set, in order.
Settled30 ==
  SelectSeq([i \in 1..Len(called) |-> i],
            LAMBDA i : BurstEnd(i) /\ ~\E t \in scheduled : t.id = i)

\* C30: func has run exactly once for every burst of calls less than `wait`
\* apart whose last call is `wait` ms or more back, at `wait` ms after that last
\* call and with its arguments, and has run at no other time; a timer still set
\* is that of the latest call and is not overdue.
C30_DebounceRunsOncePerBurst ==
  /\ ran = [k \in 1..Len(Settled30) |->
              [at |-> called[Settled30[k]].at + Wait, args |-> called[Settled30[k]].args]]
  /\ \A t \in scheduled :
       /\ t.id = Len(called)
       /\ t.due = called[t.id].at + Wait
       /\ now <= t.due
  /\ (called # <<>> /\ now > called[Len(called)].at + Wait) => scheduled = {}

C30_Witness ==
  /\ Len(called) = 3
  /\ called[1] = [at |-> 0, args |-> "a"]
  /\ called[2] = [at |-> 1, args |-> "b"]
  /\ called[3].at = 1 + Wait /\ called[3].args = "a"
  /\ ran = <<[at |-> 1 + Wait, args |-> "b"], [at |-> 1 + 2 * Wait, args |-> "a"]>>

====
